---------------------------- MODULE Spec2Model ----------------------------
(***************************************************************************)
(* A model of buttery_orbcam (src/src/lib.rs): the OrbitCam component, the *)
(* process_input system that turns held keys and scroll events into new    *)
(* targets, and the drive / update_orbitcams system that turns the smoothed*)
(* current values into a Transform.                                        *)
(*                                                                         *)
(* f32 values are fixed-point integers with Scale units per 1.0, products  *)
(* and quotients rounded toward zero.  A quaternion is the word of scaled  *)
(* rotation axes it was composed from (adjacent rotations about parallel   *)
(* axes merged, the identity dropped), or NaN.                             *)
(***************************************************************************)
EXTENDS Integers, Sequences, FiniteSets

\* ------------------------------------------------------------- bounds
NumCameras == 2
MaxFrames == 2
TiltFrames == 23

\* ------------------------------------------------- program constants
Scale == 1000
YAW_GAIN == 50
PITCH_GAIN == 80
PIXEL_SCALE == 100
ZOOM_KEY == 200
ZOOM_GAIN == 200
FRAC_PI_2 == 1571
PAN_SPEED == 40
INIT_DISTANCE == 4000
SMOOTHING == 10
DEFAULT_RADIUS == 1000

One == Scale

\* OrbitCamConfig: the ten bound actions.
Keys ==
  {"forward", "left", "right", "backward", "cw", "ccw",
   "tilt_up", "tilt_down", "zoom_in", "zoom_out"}

PanKeys == {"forward", "left", "right", "backward"}

Systems == {"process_input", "update_orbitcams"}

Cams == 1..NumCameras

\* ------------------------------------------------------- f32 arithmetic
DivT(a, b) == IF a >= 0 THEN a \div b ELSE -((-a) \div b)

MulFix(a, b) == DivT(a * b, Scale)

RECURSIVE IsqrtIter(_, _, _)
IsqrtIter(n, lo, hi) ==
  IF lo >= hi THEN lo
  ELSE LET mid == (lo + hi + 1) \div 2
       IN IF mid * mid <= n THEN IsqrtIter(n, mid, hi)
          ELSE IsqrtIter(n, lo, mid - 1)

Isqrt(n) == IsqrtIter(n, 0, 46340)

\* f32::sqrt: NaN below zero.
SqrtFix(x) ==
  IF x < 0 THEN [nan |-> TRUE, v |-> 0]
  ELSE [nan |-> FALSE, v |-> Isqrt(x * Scale)]

RECURSIVE PowFix(_, _)
PowFix(b, n) == IF n = 0 THEN One ELSE MulFix(b, PowFix(b, n - 1))

\* exp(-x) for x >= 0: e^-1 to the whole part, a series for the rest.
ExpNegFix(x) ==
  LET n == x \div Scale
      f == x % Scale
      f2 == MulFix(f, f)
      f3 == MulFix(f2, f)
      f4 == MulFix(f3, f)
      frac == One - f + DivT(f2, 2) - DivT(f3, 6) + DivT(f4, 24)
  IN MulFix(PowFix(368, n), frac)

\* sin and cos on [-pi/2, pi/2] by their series.
SinFix(x) ==
  LET x2 == MulFix(x, x)
      t3 == DivT(MulFix(x, x2), 6)
      t5 == DivT(MulFix(t3, x2), 20)
      t7 == DivT(MulFix(t5, x2), 42)
  IN x - t3 + t5 - t7

CosFix(x) ==
  LET x2 == MulFix(x, x)
      t2 == DivT(x2, 2)
      t4 == DivT(MulFix(t2, x2), 12)
      t6 == DivT(MulFix(t4, x2), 30)
  IN One - t2 + t4 - t6

\* ------------------------------------------------------------- Vec3
VecY == <<0, One, 0>>
VecZ == <<0, 0, One>>
VecZero == <<0, 0, 0>>

Vec(x, y, z) == [nan |-> FALSE, v |-> <<x, y, z>>]
VecNaN == [nan |-> TRUE, v |-> VecZero]

VScale(s, v) == <<MulFix(s, v[1]), MulFix(s, v[2]), MulFix(s, v[3])>>

VAdd(a, b) == <<a[1] + b[1], a[2] + b[2], a[3] + b[3]>>

Cross(a, b) ==
  <<MulFix(a[2], b[3]) - MulFix(a[3], b[2]),
    MulFix(a[3], b[1]) - MulFix(a[1], b[3]),
    MulFix(a[1], b[2]) - MulFix(a[2], b[1])>>

Length(v) == Isqrt(v[1] * v[1] + v[2] * v[2] + v[3] * v[3])

\* ------------------------------------------------------------- Quat
QuatIdentity == [nan |-> FALSE, w |-> <<>>]
QuatNaN == [nan |-> TRUE, w |-> <<>>]

\* Two non-zero axes along one line.
Parallel(a, b) ==
  /\ a # VecZero
  /\ b # VecZero
  /\ a[2] * b[3] = a[3] * b[2]
  /\ a[3] * b[1] = a[1] * b[3]
  /\ a[1] * b[2] = a[2] * b[1]

\* The word w followed by a rotation of scaled axis a.
Append1(w, a) ==
  IF a = VecZero THEN w
  ELSE IF Len(w) > 0 /\ Parallel(w[Len(w)], a)
       THEN LET m == VAdd(w[Len(w)], a)
                front == SubSeq(w, 1, Len(w) - 1)
            IN IF m = VecZero THEN front ELSE Append(front, m)
       ELSE Append(w, a)

\* q * Quat::from_scaled_axis(axis); a NaN operand gives NaN.
QuatMulAxis(q, axis) ==
  IF q.nan \/ axis.nan THEN QuatNaN
  ELSE [nan |-> FALSE, w |-> Append1(q.w, axis.v)]

\* Quat::normalize: a unit quaternion is left as it is, NaN stays NaN.
Normalize(q) == q

from_rotation_y(angle) == Vec(0, angle, 0)

from_rotation_x(angle) == Vec(angle, 0, 0)

\* Quat::from_rotation_x(angle).mul_vec3(v)
RotateX(angle, v) ==
  LET c == CosFix(angle)
      s == SinFix(angle)
  IN <<v[1],
       MulFix(v[2], c) - MulFix(v[3], s),
       MulFix(v[2], s) + MulFix(v[3], c)>>


\* ------------------------------------------------- TransformComponent
\* buttery::TransformComponent: a current value driven toward a target.
\* new(a, b) holds one of its two arguments as the initial value; which one is
\* the library's matter, so both readings are kept (first).
TransformComponentNew(a, b, first) ==
  LET initial == IF first THEN a ELSE b
  IN [current |-> initial, target |-> initial]

new_rotate(q) == [current |-> q, target |-> q]

new_angle(a) == [current |-> a, target |-> a]

new_zoom(d) == [current |-> d, target |-> d]

\* Translate<f32>::drive: current += (target - current) * fraction.
DriveScalar(tc, fraction) ==
  [tc EXCEPT !.current = tc.current + MulFix(tc.target - tc.current, fraction)]

RECURSIVE CommonPrefix(_, _)
CommonPrefix(a, b) ==
  IF Len(a) = 0 \/ Len(b) = 0 \/ Head(a) # Head(b) THEN 0
  ELSE 1 + CommonPrefix(Tail(a), Tail(b))

\* The rotation from current to target as one scaled axis, when it is one:
\* [ok, axis], the prefix both share being left in place.
Relative(cur, tgt) ==
  LET n == CommonPrefix(cur, tgt)
      rc == SubSeq(cur, n + 1, Len(cur))
      rt == SubSeq(tgt, n + 1, Len(tgt))
      neg(a) == <<-a[1], -a[2], -a[3]>>
  IN IF Len(rc) = 0 /\ Len(rt) = 0 THEN [ok |-> TRUE, axis |-> VecZero]
     ELSE IF Len(rc) = 0 /\ Len(rt) = 1 THEN [ok |-> TRUE, axis |-> rt[1]]
     ELSE IF Len(rc) = 1 /\ Len(rt) = 0 THEN [ok |-> TRUE, axis |-> neg(rc[1])]
     ELSE IF Len(rc) = 1 /\ Len(rt) = 1 /\ Parallel(rc[1], rt[1])
          THEN [ok |-> TRUE, axis |-> VAdd(rt[1], neg(rc[1]))]
     ELSE [ok |-> FALSE, axis |-> VecZero]

\* Whether a partial step of the rotation can be written as a word: the
\* model takes a partial step only from such states, and a full step or
\* none from any.
Drivable(tc, fraction) ==
  \/ fraction = 0
  \/ fraction = One
  \/ tc.current.nan
  \/ tc.target.nan
  \/ Relative(tc.current.w, tc.target.w).ok

\* Rotate::drive: current moves along the shortest arc toward target by the
\* fraction, and is renormalized.
DriveRotate(tc, fraction) ==
  IF fraction = 0 THEN tc
  ELSE IF tc.current.nan \/ tc.target.nan THEN [tc EXCEPT !.current = QuatNaN]
  ELSE IF fraction = One THEN [tc EXCEPT !.current = tc.target]
  ELSE [tc EXCEPT !.current =
          Normalize(QuatMulAxis(tc.current,
            [nan |-> FALSE,
             v |-> VScale(fraction, Relative(tc.current.w, tc.target.w).axis)]))]

\* ------------------------------------------------------------ OrbitCam
\* OrbitCam::default(), which is from_radius(1.0).
Default(first) ==
  [up |-> new_rotate(QuatIdentity),
   inclination |-> new_angle(0),
   distance |-> new_zoom(INIT_DISTANCE),
   target_height |-> TransformComponentNew(SMOOTHING, DEFAULT_RADIUS, first),
   min |-> TransformComponentNew(SMOOTHING, DEFAULT_RADIUS, first)]

\* ------------------------------------------------------ process_input
Pressed(held, key) == key \in held

Pitch(held) ==
  MulFix((IF Pressed(held, "tilt_up") THEN -One ELSE 0)
           + (IF Pressed(held, "tilt_down") THEN One ELSE 0),
         PITCH_GAIN)

\* cw and ccw read as an else-if pair, as the zoom keys are.
Yaw_NoCancel(held) ==
  IF Pressed(held, "cw") THEN MulFix(One, YAW_GAIN)
  ELSE IF Pressed(held, "ccw") THEN MulFix(-One, YAW_GAIN)
  ELSE 0

Yaw(held) ==
  MulFix((IF Pressed(held, "cw") THEN One ELSE 0)
           + (IF Pressed(held, "ccw") THEN -One ELSE 0),
         YAW_GAIN)

ScrollAmount(event) ==
  IF event.unit = "Line" THEN event.y ELSE MulFix(event.y, PIXEL_SCALE)

RECURSIVE ScrollSum(_)
ScrollSum(events) ==
  IF Len(events) = 0 THEN 0
  ELSE ScrollAmount(Head(events)) + ScrollSum(Tail(events))

\* The zoom keys read as two independent ifs, as the other pairs are.
ZoomKeys_Symmetric(held) ==
  (IF Pressed(held, "zoom_out") THEN ZOOM_KEY ELSE 0)
    + (IF Pressed(held, "zoom_in") THEN -ZOOM_KEY ELSE 0)

ZoomKeys(held) ==
  IF Pressed(held, "zoom_out") THEN ZOOM_KEY
  ELSE IF Pressed(held, "zoom_in") THEN -ZOOM_KEY
  ELSE 0

DeltaZoom(held, events) == ScrollSum(events) + ZoomKeys(held)

PanRight(held) ==
  (IF Pressed(held, "right") THEN -One ELSE 0)
    + (IF Pressed(held, "left") THEN One ELSE 0)

PanUp(held) ==
  (IF Pressed(held, "forward") THEN -One ELSE 0)
    + (IF Pressed(held, "backward") THEN One ELSE 0)

\* The handler's locals once the keys and the scroll events are read.
InputLocals(held, events) ==
  [yaw |-> Yaw(held),
   pitch |-> Pitch(held),
   delta_zoom |-> DeltaZoom(held, events),
   up |-> PanUp(held),
   right |-> PanRight(held)]

Clamp(x, lo, hi) == IF x < lo THEN lo ELSE IF x > hi THEN hi ELSE x

ZoomTarget(camera, delta_zoom) ==
  MulFix(camera.distance.target, One + MulFix(delta_zoom, ZOOM_GAIN))

YawTarget(camera, yaw) ==
  Normalize(QuatMulAxis(camera.up.target, from_rotation_y(yaw)))

\* The clamp left out.
TiltTarget_Unclamped(camera, pitch) == camera.inclination.target + pitch

TiltTarget(camera, pitch) ==
  Clamp(camera.inclination.target + pitch, 0, FRAC_PI_2)

\* 0.04 * (2 / (1 + exp(-sqrt(d))) - 1); NaN for a negative distance.
SpeedScl(want_distance) ==
  LET root == SqrtFix(want_distance)
  IN IF root.nan THEN [nan |-> TRUE, v |-> 0]
     ELSE LET e == ExpNegFix(root.v)
              recip == DivT(One * One, e + One)
          IN [nan |-> FALSE, v |-> MulFix(PAN_SPEED, 2 * recip - One)]

\* Vec3::Y.cross(Vec3::new(right * -speed_scl, 0.0, up * speed_scl));
\* 0.0 * NaN is NaN.
PanAxis(speed, right, up) ==
  IF speed.nan THEN VecNaN
  ELSE [nan |-> FALSE,
        v |-> Cross(VecY, <<MulFix(right, -speed.v), 0, MulFix(up, speed.v)>>)]

\* len == 0.0: false of NaN.
AxisIsZero(axis) == ~axis.nan /\ Length(axis.v) = 0

\* The zoom factor applied to the smoothed distance as well as its target.
LoopBody_WritesCurrent(camera, l) ==
  LET zoomed == [camera EXCEPT
                   !.distance.target = ZoomTarget(camera, l.delta_zoom),
                   !.distance.current =
                     MulFix(camera.distance.current,
                            One + MulFix(l.delta_zoom, ZOOM_GAIN)),
                   !.up.target = YawTarget(camera, l.yaw),
                   !.inclination.target = TiltTarget(camera, l.pitch)]
      want_distance == zoomed.distance.current
      speed_scl == SpeedScl(want_distance)
      axis == PanAxis(speed_scl, l.right, l.up)
  IN IF AxisIsZero(axis)
     THEN [camera |-> zoomed, returned |-> TRUE]
     ELSE [camera |-> [zoomed EXCEPT
                         !.up.target = Normalize(QuatMulAxis(zoomed.up.target, axis))],
           returned |-> FALSE]

\* One pass of the loop body over a camera: the camera as it is left, and
\* whether the body returned from process_input.
LoopBody(camera, l) ==
  LET zoomed == [camera EXCEPT
                   !.distance.target = ZoomTarget(camera, l.delta_zoom),
                   !.up.target = YawTarget(camera, l.yaw),
                   !.inclination.target = TiltTarget(camera, l.pitch)]
      want_distance == zoomed.distance.current
      speed_scl == SpeedScl(want_distance)
      axis == PanAxis(speed_scl, l.right, l.up)
  IN IF AxisIsZero(axis)
     THEN [camera |-> zoomed, returned |-> TRUE]
     ELSE [camera |-> [zoomed EXCEPT
                         !.up.target = Normalize(QuatMulAxis(zoomed.up.target, axis))],
           returned |-> FALSE]

\* for mut camera in cameras.iter_mut() { ... }, from camera i on.
RECURSIVE IterMut(_, _, _)
IterMut(cs, i, l) ==
  IF i > Len(cs) THEN cs
  ELSE LET r == LoopBody(cs[i], l)
           next == [cs EXCEPT ![i] = r.camera]
       IN IF r.returned THEN next ELSE IterMut(next, i + 1, l)

process_input(cs, held, events) == IterMut(cs, 1, InputLocals(held, events))

\* ---------------------------------------------------------------- drive
Arm(dist, incl) == VScale(dist, RotateX(-incl, VecZ))

Candidate(height, arm) == VAdd(VScale(height, VecY), arm)

\* The whole position rescaled to length min.
Correct_Rescale(pos, pos_len, min) ==
  IF pos_len < min /\ pos_len > 0
  THEN <<DivT(pos[1] * min, pos_len), DivT(pos[2] * min, pos_len),
         DivT(pos[3] * min, pos_len)>>
  ELSE pos

\* pos.y += min, the measured length forgotten.
Correct_AddsMin(pos, pos_len, min) ==
  IF pos_len < min THEN [pos EXCEPT ![2] = pos[2] + min] ELSE pos

\* if pos_len < min { pos.y += min - pos_len; }
Correct(pos, pos_len, min) ==
  IF pos_len < min THEN [pos EXCEPT ![2] = pos[2] + (min - pos_len)] ELSE pos

\* OrbitCam::drive: the camera with its five values advanced, the locals of
\* the pose computation, and the Transform returned.
drive(camera, fraction) ==
  LET up == DriveRotate(camera.up, fraction)
      incl == DriveScalar(camera.inclination, fraction)
      dist == DriveScalar(camera.distance, fraction)
      height == DriveScalar(camera.target_height, fraction)
      min == DriveScalar(camera.min, fraction)
      arm == Arm(dist.current, incl.current)
      candidate == Candidate(height.current, arm)
      pos_len == Length(candidate)
      pos == Correct(candidate, pos_len, min.current)
  IN [camera |-> [up |-> up, inclination |-> incl, distance |-> dist,
                  target_height |-> height, min |-> min],
      candidate |-> candidate,
      pos_len |-> pos_len,
      min |-> min.current,
      pos |-> pos,
      transform |->
        [rotation |-> QuatMulAxis(up.current, from_rotation_x(-incl.current)),
         translation |-> [up |-> up.current, pos |-> pos],
         scale |-> <<One, One, One>>]]

update_orbitcams(cs, fraction) == [c \in DOMAIN cs |-> drive(cs[c], fraction)]


\* ------------------------------------------------------- the Bevy app
VARIABLES
  cameras,       \* the OrbitCam components, in query order
  keys,          \* ButtonInput<KeyCode>: the bound actions whose key is held
  scroll,        \* the MouseWheel events not yet read
  time,          \* Time: what this frame's delta makes of the drive fraction
  pending,       \* the systems of the Update schedule still to run this frame
  frame,         \* frames begun
  input_locals,  \* process_input's locals at its last run
  driven         \* per camera, drive's locals and Transform at its last run

vars == <<cameras, keys, scroll, time, pending, frame, input_locals, driven>>

Line(y) == [unit |-> "Line", y |-> y]
Pixel(y) == [unit |-> "Pixel", y |-> y]

\* The host's time source: no time passed, some, or enough to arrive.
Fractions == {0, One \div 2, One}

\* A camera update_orbitcams has not driven yet: the Transform it was
\* spawned with.
NotDriven ==
  [ran |-> FALSE,
   candidate |-> VecZero,
   pos_len |-> 0,
   min |-> 0,
   pos |-> VecZero,
   transform |->
     [rotation |-> QuatIdentity,
      translation |-> [up |-> QuatIdentity, pos |-> VecZero],
      scale |-> <<One, One, One>>]]

InitWith(cs) ==
  /\ cameras = cs
  /\ keys = {}
  /\ scroll = <<>>
  /\ time = 0
  /\ pending = {}
  /\ frame = 0
  /\ input_locals = InputLocals({}, <<>>)
  /\ driven = [c \in Cams |-> NotDriven]

\* Every camera spawned with OrbitCam::default().
Init == \E first \in BOOLEAN : InitWith([c \in Cams |-> Default(first)])

\* A frame begins: the host has updated the held keys, queued the frame's
\* scroll events and measured the frame's delta.
BeginFrame(inputs, fractions, limit) ==
  /\ pending = {}
  /\ frame < limit
  /\ \E in \in inputs, f \in fractions :
       /\ keys' = in.keys
       /\ scroll' = in.scroll
       /\ time' = f
  /\ pending' = Systems
  /\ frame' = frame + 1
  /\ UNCHANGED <<cameras, input_locals, driven>>

\* The process_input system runs; its EventReader drains the scroll events.
ProcessInput ==
  /\ "process_input" \in pending
  /\ cameras' = process_input(cameras, keys, scroll)
  /\ input_locals' = InputLocals(keys, scroll)
  /\ scroll' = <<>>
  /\ pending' = pending \ {"process_input"}
  /\ UNCHANGED <<keys, time, frame, driven>>

\* The update_orbitcams system runs: every camera is driven and its
\* Transform replaced.
UpdateOrbitcams ==
  /\ "update_orbitcams" \in pending
  /\ \A c \in Cams : Drivable(cameras[c].up, time)
  /\ \E out \in {update_orbitcams(cameras, time)} :
       /\ cameras' = [c \in Cams |-> out[c].camera]
       /\ driven' = [c \in Cams |->
                       [ran |-> TRUE,
                        candidate |-> out[c].candidate,
                        pos_len |-> out[c].pos_len,
                        min |-> out[c].min,
                        pos |-> out[c].pos,
                        transform |-> out[c].transform]]
  /\ pending' = pending \ {"update_orbitcams"}
  /\ UNCHANGED <<keys, scroll, time, frame, input_locals>>

In(held, events) == [keys |-> held, scroll |-> events]

\* The frames' inputs of the main specification.
FrameInputs ==
  {In({}, <<>>),
   In({"zoom_out"}, <<>>),
   In({"cw", "ccw", "tilt_down"}, <<>>),
   In({"cw"}, <<>>),
   In({"forward"}, <<>>),
   In({"left", "tilt_down", "zoom_in"}, <<>>),
   In({"zoom_in", "zoom_out", "backward", "right"}, <<>>),
   In({}, <<Line(-6000)>>),
   In({}, <<Line(1000)>>),
   In({"ccw"}, <<Pixel(-30000), Pixel(-30000)>>)}

Next ==
  \/ BeginFrame(FrameInputs, {One \div 2, One}, MaxFrames)
  \/ ProcessInput
  \/ UpdateOrbitcams

Spec == Init /\ [][Next]_vars


\* Tilt keys held frame after frame.
TiltInputs ==
  {In({"tilt_up"}, <<>>),
   In({"tilt_down"}, <<>>),
   In({"tilt_up", "tilt_down"}, <<>>)}

NextTilt ==
  \/ BeginFrame(TiltInputs, {One}, TiltFrames)
  \/ ProcessInput
  \/ UpdateOrbitcams

SpecTilt == Init /\ [][NextTilt]_vars

\* One frame on freshly spawned cameras, with every set of held keys.
KeyInputs ==
  {In(held, events) :
     held \in SUBSET Keys,
     events \in {<<>>, <<Pixel(-10000), Line(3000)>>}}

NextKeys ==
  \/ BeginFrame(KeyInputs, {One}, 1)
  \/ ProcessInput
  \/ UpdateOrbitcams

SpecKeys == Init /\ [][NextKeys]_vars

\* Cameras built by the application with its own values in the public
\* fields: inclination within [0, pi/2], distance, height and min not
\* negative, current = target.
Built(incl, dist, height, min) ==
  [up |-> new_rotate(QuatIdentity),
   inclination |-> new_angle(incl),
   distance |-> new_zoom(dist),
   target_height |-> [current |-> height, target |-> height],
   min |-> [current |-> min, target |-> min]]

InitDrive ==
  \E incl \in {0, 400, 800, 1200, FRAC_PI_2},
     dist \in {0, 500, 3000, INIT_DISTANCE},
     height \in {0, SMOOTHING, DEFAULT_RADIUS},
     min \in {SMOOTHING, DEFAULT_RADIUS, 3000, 6000} :
    InitWith([c \in Cams |-> Built(incl, dist, height, min)])

DriveInputs ==
  {In({}, <<>>),
   In({"tilt_down", "zoom_in"}, <<>>),
   In({"tilt_up"}, <<Line(-2000)>>)}

NextDrive ==
  \/ BeginFrame(DriveInputs, Fractions, 1)
  \/ ProcessInput
  \/ UpdateOrbitcams

SpecDrive == InitDrive /\ [][NextDrive]_vars


\* ------------------------------------------------------------- claims
\* A step in which the process_input system ran.
InputStep == "process_input" \in pending /\ "process_input" \notin pending'

InputRan == frame >= 1 /\ "process_input" \notin pending

DriveRan == frame >= 1 /\ "update_orbitcams" \notin pending

TiltHeld == keys \cap {"tilt_up", "tilt_down"}

RotateHeld == keys \cap {"cw", "ccw"}

Targets(camera) ==
  <<camera.up.target, camera.inclination.target, camera.distance.target,
    camera.target_height.target, camera.min.target>>

Currents(camera) ==
  <<camera.up.current, camera.inclination.current, camera.distance.current,
    camera.target_height.current, camera.min.current>>

\* The tick's zoom input: each line event's y, a tenth of each pixel
\* event's y, and 0.2 for zoom-out or else -0.2 for zoom-in.
RECURSIVE Scrolled(_, _)
Scrolled(events, i) ==
  IF i > Len(events) THEN 0
  ELSE (IF events[i].unit = "Line" THEN events[i].y ELSE DivT(events[i].y, 10))
         + Scrolled(events, i + 1)

TickZoom ==
  Scrolled(scroll, 1)
    + (IF "zoom_out" \in keys THEN 200 ELSE IF "zoom_in" \in keys THEN -200 ELSE 0)

TickPitch ==
  IF TiltHeld = {"tilt_up"} THEN -80 ELSE IF TiltHeld = {"tilt_down"} THEN 80 ELSE 0

TickYaw ==
  IF RotateHeld = {"cw"} THEN 50 ELSE IF RotateHeld = {"ccw"} THEN -50 ELSE 0

\* previous target * (1 + delta_zoom * 0.2)
Zoomed(target) == DivT(target * (1000 + DivT(TickZoom * 200, 1000)), 1000)

\* C1: in one process_input pass every camera receives the tick's zoom and
\* tilt target updates, and its yaw update when no pan key is held: a camera
\* whose pan axis is zero does not end the pass for the cameras after it.
C1_PassReachesEveryCamera ==
  [][InputStep =>
       \A c \in Cams :
         /\ cameras'[c].distance.target = Zoomed(cameras[c].distance.target)
         /\ cameras'[c].inclination.target =
              Clamp(cameras[c].inclination.target + TickPitch, 0, FRAC_PI_2)
         /\ (keys \cap PanKeys = {} /\ cameras[c].distance.current >= 0
               => cameras'[c].up.target =
                    QuatMulAxis(cameras[c].up.target, Vec(0, TickYaw, 0)))]_vars

\* C2: inclination.target of every camera stays within [0, pi/2]; a tick
\* with tilt-up held leaves a target of 0 at 0, a tick with tilt-down held
\* leaves a target of pi/2 at pi/2, and the first camera's target, which
\* every tick updates, is the previous one moved by the pitch and cut to
\* the range.
C2_InclinationInRange ==
  /\ [](\A c \in Cams :
          /\ cameras[c].inclination.target >= 0
          /\ cameras[c].inclination.target <= FRAC_PI_2)
  /\ [][InputStep =>
          /\ \A c \in Cams :
               /\ (TiltHeld = {"tilt_up"} /\ cameras[c].inclination.target = 0
                     => cameras'[c].inclination.target = 0)
               /\ (TiltHeld = {"tilt_down"}
                     /\ cameras[c].inclination.target = FRAC_PI_2
                     => cameras'[c].inclination.target = FRAC_PI_2)
          /\ LET moved == cameras[1].inclination.target + TickPitch
             IN cameras'[1].inclination.target =
                  IF moved < 0 THEN 0
                  ELSE IF moved > FRAC_PI_2 THEN FRAC_PI_2 ELSE moved]_vars

\* C2's case: tilt-down held until the first camera's target is cut to pi/2.
C2_Witness ==
  /\ InputRan
  /\ keys = {"tilt_down"}
  /\ frame >= 20
  /\ cameras[1].inclination.target = FRAC_PI_2

\* C3: distance.target of every camera is never negative.
C3_DistanceNonNegative == \A c \in Cams : cameras[c].distance.target >= 0

\* C4 as stated: a tick with no pan key held leaves every camera's
\* up.target as it was, whatever else is held.
C4_NoPanKeepsUp ==
  [][InputStep /\ keys \cap PanKeys = {} =>
       \A c \in Cams : cameras'[c].up.target = cameras[c].up.target]_vars

\* A camera the pass reaches when no pan key is held: every camera before
\* it had a NaN pan axis (a negative distance.current), so none returned.
ReachedNoPan(c) == \A d \in 1..(c - 1) : cameras[d].distance.current < 0

\* C4 amended: a tick with no pan key held and with cw and ccw both held or
\* both released leaves up.target as it was for every camera whose
\* distance.current is not negative; a camera the pass reaches with a
\* negative distance.current gets a NaN up.target.
C4_NoPanNoYawKeepsUp ==
  [][InputStep /\ keys \cap PanKeys = {} /\ RotateHeld \in {{}, {"cw", "ccw"}} =>
       \A c \in Cams :
         cameras'[c].up.target =
           IF ReachedNoPan(c) /\ cameras[c].distance.current < 0
           THEN QuatNaN
           ELSE cameras[c].up.target]_vars

\* C4's case: a tick with other keys but no pan key held has run on a camera
\* whose up.target is a rotation away from the identity.
C4_Witness ==
  /\ InputRan
  /\ keys # {}
  /\ keys \cap PanKeys = {}
  /\ RotateHeld = {}
  /\ ~cameras[1].up.target.nan
  /\ cameras[1].up.target # QuatIdentity

\* C5: a tick with no key held and no scroll event leaves every target of
\* every camera as it was.
C5_NoInputKeepsTargets ==
  [][InputStep /\ keys = {} /\ scroll = <<>> =>
       \A c \in Cams : Targets(cameras'[c]) = Targets(cameras[c])]_vars

\* C6: for each camera a tick sets distance.target to its previous value
\* times (1 + delta_zoom * 0.2).
C6_ZoomIsMultiplicative ==
  [][InputStep =>
       \A c \in Cams :
         cameras'[c].distance.target = Zoomed(cameras[c].distance.target)]_vars

\* C7: process_input leaves the current value of up, inclination,
\* distance, target_height and min of every camera as it was.
C7_InputWritesOnlyTargets ==
  [][InputStep =>
       \A c \in Cams : Currents(cameras'[c]) = Currents(cameras[c])]_vars

\* C7's case: process_input has run after update_orbitcams in a frame and
\* moved targets away from the current values.
C7_Witness ==
  /\ InputRan
  /\ DriveRan
  /\ cameras[1].distance.target # cameras[1].distance.current
  /\ cameras[1].up.target # cameras[1].up.current
  /\ cameras[1].inclination.target # cameras[1].inclination.current

\* The candidate position drive starts from: (0, height, 0) + arm.
CandidateOf(camera) ==
  LET incl == camera.inclination.current
      dist == camera.distance.current
  IN <<0,
       camera.target_height.current + MulFix(dist, SinFix(incl)),
       MulFix(dist, CosFix(incl))>>

\* C8: with r the length of the candidate position, r < min changes only
\* the y component, by min - r, and r >= min changes nothing.
C8_VerticalCorrectionOnly ==
  \A c \in Cams :
    LET d == driven[c]
        r == Isqrt(d.candidate[1] * d.candidate[1]
                     + d.candidate[2] * d.candidate[2]
                     + d.candidate[3] * d.candidate[3])
    IN d.ran =>
         /\ d.candidate = CandidateOf(cameras[c])
         /\ d.min = cameras[c].min.current
         /\ d.transform.translation.pos = d.pos
         /\ IF r < d.min
            THEN /\ d.pos[1] = d.candidate[1]
                 /\ d.pos[3] = d.candidate[3]
                 /\ d.pos[2] = d.candidate[2] + (d.min - r)
            ELSE d.pos = d.candidate

\* C8's case: drive has corrected a candidate position off the vertical axis.
C8_Witness ==
  \E c \in Cams :
    /\ driven[c].ran
    /\ driven[c].pos_len < driven[c].min
    /\ driven[c].candidate[3] # 0
    /\ driven[c].candidate[2] # 0

\* C9 as stated: the corrected position of a candidate shorter than min has
\* length min.
C9_CorrectedLengthIsMin ==
  \A c \in Cams :
    driven[c].ran /\ driven[c].pos_len < driven[c].min
      => Length(driven[c].pos) = driven[c].min

\* C9 amended: the corrected position of a candidate shorter than min is
\* no longer than min, and has length min when the candidate lies on the
\* vertical axis at or above the focus.
C9_CorrectedLengthAtMostMin ==
  \A c \in Cams :
    LET d == driven[c]
    IN d.ran /\ d.pos_len < d.min =>
         /\ Length(d.pos) <= d.min
         /\ (d.candidate[1] = 0 /\ d.candidate[3] = 0 /\ d.candidate[2] >= 0
               => Length(d.pos) = d.min)

\* C9's case: drive has corrected a candidate off the vertical axis and the
\* corrected position is still shorter than min.
C9_Witness ==
  \E c \in Cams :
    /\ driven[c].ran
    /\ driven[c].pos_len < driven[c].min
    /\ driven[c].candidate[3] # 0
    /\ Length(driven[c].pos) < driven[c].min

\* C10: the zoom keys add 0.2 to delta_zoom whenever zoom-out is held and
\* subtract 0.2 only when zoom-in is held without it, while both keys of a
\* tilt, rotate or pan pair held together contribute nothing.
C10_ZoomKeysAsymmetric ==
  [][InputStep =>
       LET l == input_locals'
           key_zoom == l.delta_zoom - Scrolled(scroll, 1)
           first == cameras[1]
           after == cameras'[1]
       IN /\ ("zoom_out" \in keys => key_zoom = 200)
          /\ ("zoom_in" \in keys /\ "zoom_out" \notin keys => key_zoom = -200)
          /\ (keys \cap {"zoom_in", "zoom_out"} = {} => key_zoom = 0)
          /\ after.distance.target =
               DivT(first.distance.target
                      * (1000 + DivT((Scrolled(scroll, 1) + key_zoom) * 200, 1000)),
                    1000)
          /\ ({"tilt_up", "tilt_down"} \subseteq keys
                => l.pitch = 0
                   /\ after.inclination.target = first.inclination.target)
          /\ ({"cw", "ccw"} \subseteq keys => l.yaw = 0)
          /\ ({"left", "right"} \subseteq keys => l.right = 0)
          /\ ({"forward", "backward"} \subseteq keys => l.up = 0)
          /\ ({"cw", "ccw"} \subseteq keys
                /\ ({"left", "right"} \subseteq keys \/ keys \cap {"left", "right"} = {})
                /\ ({"forward", "backward"} \subseteq keys
                      \/ keys \cap {"forward", "backward"} = {})
                => after.up.target = first.up.target)]_vars

\* C10's case: a tick with both zoom keys held has zoomed the first camera
\* out.
C10_Witness ==
  /\ InputRan
  /\ {"zoom_in", "zoom_out"} \subseteq keys
  /\ input_locals.delta_zoom = 200
  /\ cameras[1].distance.target > INIT_DISTANCE

=============================================================================
